---- MODULE Spec2Model ----
(***************************************************************************)
(* Model of dfa.py: dfa_from_group turns a content model (a tree of        *)
(* elements and sequence / choice / all groups, each with an occurs pair)  *)
(* into an epsilon-NFA, determinizes it, minimizes it and renumbers the    *)
(* states of the result.                                                   *)
(*                                                                         *)
(* NFA states "q<d>" are modelled by the number d.  A state of the         *)
(* determinized automaton is named by the library after the set of NFA     *)
(* states it stands for ("{q0,q1}", "{}" for the empty set); it is         *)
(* modelled by that set, so the name "{}" is the empty set.                *)
(***************************************************************************)
EXTENDS Integers, Sequences, FiniteSets, TLC

\* ------------------------------------------------------------- bounds
\* Longest symbol sequence the language comparisons enumerate.
MaxWordLen == 4
\* Largest number of children of a group of elements.
MaxGroup == 3

\* ---------------------------------------------------------- constants
\* The marker of a vacant out-going arrow (Python's None).
None == -1
\* max_occurs of an unbounded particle (Python's None in t.occurs).
Unbounded == -1
\* The input of an epsilon transition.
Eps == ""

Symbols == {"A", "B"}

\* ----------------------------------------------------- content models
\* An XsdElement or XsdGroup: model, name (of an element), _group (the
\* children of a group) and occurs.
Element(a, occ) == [model |-> "element", name |-> a, group |-> <<>>, occurs |-> occ]
Group(m, g, occ) == [model |-> m, name |-> "", group |-> g, occurs |-> occ]

IsElement(t) == t.model = "element"

\* The four occurs pairs _nfa_from_node handles.
SupportedOccurs == {<<1, 1>>, <<0, 1>>, <<0, Unbounded>>, <<1, Unbounded>>}
\* Pairs it does not handle.
OtherOccurs == {<<2, 3>>}
AllOccurs == SupportedOccurs \cup OtherOccurs

Models == {"sequence", "choice", "all"}

\* --------------------------------------------------------- the builder
\* The closure variables of dfa_from_group: n is len(_nfa_states) (the
\* states are q0 .. q(n-1): _remove_state is never called), tr is
\* _nfa_state_transitions (state -> input -> set of targets), el is
\* _elements.
EmptyFcn == [x \in {} |-> {}]

NewBuilder == [n |-> 0, tr |-> EmptyFcn, el |-> EmptyFcn]

\* _add_transition(state, input, next)
AddTransition(tr, state, input, next) ==
    IF state \notin DOMAIN tr
    THEN tr @@ (state :> (input :> {next}))
    ELSE IF input \notin DOMAIN tr[state]
         THEN [tr EXCEPT ![state] = tr[state] @@ (input :> {next})]
         ELSE [tr EXCEPT ![state][input] = tr[state][input] \cup {next}]

\* A _patch that leaves the vacant arrows as they are.
PatchKeepsPending(tr, state, next) == tr

\* _patch(state, next): every vacant arrow of state now leads to next.
Patch(tr, state, next) ==
    [tr EXCEPT ![state] =
        [k \in DOMAIN tr[state] |->
            {IF x = None THEN next ELSE x : x \in tr[state][k]}]]

\* A loop that patches one vacant state and stops.
PatchFirstOnly(tr, vacant, next) ==
    IF vacant = {} THEN tr
    ELSE Patch(tr, CHOOSE x \in vacant : \A y \in vacant : x <= y, next)

\* for v in vacant: _patch(v, next)
RECURSIVE PatchEach(_, _, _)
PatchEach(tr, vacant, next) ==
    IF vacant = {} THEN tr
    ELSE LET v == CHOOSE x \in vacant : TRUE
         IN PatchEach(Patch(tr, v, next), vacant \ {v}, next)

\* What a call of one of the _nfa_from_* functions leaves behind: the
\* builder, the returned (init, vacant), the node as the call left it, and
\* the exception that ended the call ("" when it returned).
Returned(b, init, vacant, t) ==
    [b |-> b, init |-> init, vacant |-> vacant, t |-> t, err |-> ""]
Raised(b, t, e) ==
    [b |-> b, init |-> None, vacant |-> {}, t |-> t, err |-> e]

\* _nfa_from_element
NfaFromElement(t, b) ==
    LET x == b.n
    IN Returned([n |-> b.n + 1,
                 tr |-> AddTransition(b.tr, x, t.name, None),
                 el |-> [a \in DOMAIN b.el \cup {t.name} |->
                            IF a = t.name THEN t ELSE b.el[a]]],
                x, {x}, t)

\* itertools.permutations(range(1, n+1)) restricted to the members of S:
\* the orderings of S in lexicographic order, the ascending one first.
RECURSIVE PermutationsOf(_)
RECURSIVE PermutationsFrom(_, _)
PermutationsOf(S) ==
    IF S = {} THEN << <<>> >> ELSE PermutationsFrom(S, S)
\* The orderings of S whose first member is in Firsts, smallest first.
PermutationsFrom(S, Firsts) ==
    IF Firsts = {} THEN <<>>
    ELSE LET i == CHOOSE x \in Firsts : \A y \in Firsts : x <= y
             rest == PermutationsOf(S \ {i})
         IN [k \in 1..Len(rest) |-> <<i>> \o rest[k]]
            \o PermutationsFrom(S, Firsts \ {i})

\* The orderings of the positions, the descending one first.
ReversedPermutations(n) ==
    LET ps == PermutationsOf(1..n)
    IN [k \in 1..Len(ps) |-> ps[Len(ps) + 1 - k]]

\* permutations(t._group), as orderings of the positions 1..n of the list.
GroupPermutations(n) == PermutationsOf(1..n)

\* An if/elif chain without its final else.
OccursAlwaysHandled(occ) == TRUE

\* Whether t.occurs is one of the pairs the if/elif chain of _nfa_from_node
\* handles.
OccursHandled(occ) ==
    \/ occ = <<1, 1>>
    \/ occ = <<0, 1>>
    \/ occ = <<0, Unbounded>>
    \/ occ = <<1, Unbounded>>

RECURSIVE NfaFromNode(_, _)
RECURSIVE SequenceLoop(_, _, _, _, _)
RECURSIVE ChoiceLoop(_, _, _, _, _)
RECURSIVE AllLoop(_, _, _, _, _, _, _)

\* The body of the for loop of _nfa_from_sequence, from child i on.
SequenceLoop(t, i, b, init, vacant) ==
    IF i > Len(t.group) THEN Returned(b, init, vacant, t)
    ELSE LET r == NfaFromNode(t.group[i], b)
             t1 == [t EXCEPT !.group[i] = r.t]
         IN IF r.err # "" THEN Raised(r.b, t1, r.err)
            ELSE SequenceLoop(t1, i + 1,
                     [r.b EXCEPT !.tr = PatchEach(r.b.tr, vacant, r.init)],
                     init, r.vacant)

\* _nfa_from_sequence: t._group[0] of an empty list raises IndexError.
NfaFromSequence(t, b) ==
    IF Len(t.group) = 0 THEN Raised(b, t, "IndexError")
    ELSE LET r == NfaFromNode(t.group[1], b)
             t1 == [t EXCEPT !.group[1] = r.t]
         IN IF r.err # "" THEN Raised(r.b, t1, r.err)
            ELSE SequenceLoop(t1, 2, r.b, r.init, r.vacant)

\* The for loop of _nfa_from_choice, from child i on; x is the branch state.
ChoiceLoop(t, i, b, x, vacants) ==
    IF i > Len(t.group) THEN Returned(b, x, vacants, t)
    ELSE LET r == NfaFromNode(t.group[i], b)
             t1 == [t EXCEPT !.group[i] = r.t]
         IN IF r.err # "" THEN Raised(r.b, t1, r.err)
            ELSE ChoiceLoop(t1, i + 1,
                     [r.b EXCEPT !.tr = AddTransition(r.b.tr, x, Eps, r.init)],
                     x, vacants \cup r.vacant)

\* _nfa_from_choice
NfaFromChoice(t, b) ==
    ChoiceLoop(t, 1, [b EXCEPT !.n = b.n + 1], b.n, {})

\* The for loop of _nfa_from_all, from permutation k of perms on.  kids are
\* the children by their position in original_group; t._group is set to
\* the children in the order of the permutation before each call of
\* _nfa_from_sequence, and to original_group after the last.
AllLoop(t, perms, k, kids, b, x, vacants) ==
    IF k > Len(perms)
    THEN Returned(b, x, vacants, [t EXCEPT !.group = kids])
    ELSE LET p == perms[k]
             tp == [t EXCEPT !.group = [j \in 1..Len(p) |-> kids[p[j]]]]
             r == NfaFromSequence(tp, b)
             kids1 == [c \in 1..Len(kids) |->
                          r.t.group[CHOOSE j \in 1..Len(p) : p[j] = c]]
         IN IF r.err # "" THEN Raised(r.b, r.t, r.err)
            ELSE AllLoop(t, perms, k + 1, kids1,
                     [r.b EXCEPT !.tr = AddTransition(r.b.tr, x, Eps, r.init)],
                     x, vacants \cup r.vacant)

\* _nfa_from_all
NfaFromAll(t, b) ==
    AllLoop(t, GroupPermutations(Len(t.group)), 1, t.group,
            [b EXCEPT !.n = b.n + 1], b.n, {})

\* The occurs part of _nfa_from_node, applied to the fragment (init, vacant)
\* of node t.
WrapOccurs(t, b, init, vacant) ==
    IF ~OccursHandled(t.occurs)
    THEN Raised(b, t, "NotImplementedError")
    ELSE IF t.occurs = <<1, 1>>
    THEN Returned(b, init, vacant, t)
    ELSE IF t.occurs = <<0, 1>>
    THEN Returned([b EXCEPT !.tr = AddTransition(b.tr, init, Eps, None)],
                  init, vacant \cup {init}, t)
    ELSE IF t.occurs = <<0, Unbounded>>
    THEN Returned([b EXCEPT !.tr =
                      AddTransition(PatchEach(b.tr, vacant, init), init, Eps, None)],
                  init, {init}, t)
    ELSE LET next == b.n
             tr1 == PatchEach(b.tr, vacant, next)
             tr2 == AddTransition(tr1, next, Eps, init)
             tr3 == AddTransition(tr2, next, Eps, None)
         IN Returned([b EXCEPT !.n = b.n + 1, !.tr = tr3], init, {next}, t)

\* _nfa_from_node
NfaFromNode(t, b) ==
    LET r == IF IsElement(t) THEN NfaFromElement(t, b)
             ELSE IF t.model = "sequence" THEN NfaFromSequence(t, b)
             ELSE IF t.model = "choice" THEN NfaFromChoice(t, b)
             ELSE IF t.model = "all" THEN NfaFromAll(t, b)
             ELSE Raised(b, t, "NotImplementedError")
    IN IF r.err # "" THEN r
       ELSE WrapOccurs(r.t, r.b, r.init, r.vacant)

\* ------------------------------------------------- the NFA and its language
\* The targets of state s on input a in the transitions tr.
Targets(tr, s, a) ==
    IF s \in DOMAIN tr /\ a \in DOMAIN tr[s] THEN tr[s][a] ELSE {}

\* The states that hold a vacant arrow.
Pending(tr) ==
    {s \in DOMAIN tr : \E a \in DOMAIN tr[s] : None \in tr[s][a]}

\* epsilon_closure(S): S and everything epsilon transitions lead to from it.
RECURSIVE EpsilonClosure(_, _)
EpsilonClosure(tr, S) ==
    LET more == S \cup UNION {Targets(tr, s, Eps) : s \in S}
    IN IF more = S THEN S ELSE EpsilonClosure(tr, more)

\* The set of NFA states after reading a from the set S.
Move(tr, S, a) ==
    EpsilonClosure(tr, UNION {Targets(tr, s, a) : s \in S})

RECURSIVE NfaRun(_, _, _)
NfaRun(tr, S, w) ==
    IF w = <<>> THEN S ELSE NfaRun(tr, Move(tr, S, Head(w)), Tail(w))

\* Whether the NFA (transitions tr, initial state i, final state f) accepts w.
NfaAccepts(tr, i, f, w) == f \in NfaRun(tr, EpsilonClosure(tr, {i}), w)

\* --------------------------------------------------------- determinizer
\* DFA.from_nfa: the subsets of NFA states reachable from the closure of the
\* initial state; the empty subset, once reached, is a state like the
\* others (the trap, named "{}").
RECURSIVE Reachable(_, _, _)
Reachable(tr, syms, seen) ==
    LET more == seen \cup {Move(tr, S, a) : S \in seen, a \in syms}
    IN IF more = seen THEN seen ELSE Reachable(tr, syms, more)

FromNfa(tr, syms, i, f) ==
    LET start == EpsilonClosure(tr, {i})
        states == Reachable(tr, syms, {start})
    IN [states |-> states,
        input_symbols |-> syms,
        transitions |-> [S \in states |-> [a \in syms |-> Move(tr, S, a)]],
        initial_state |-> start,
        final_states |-> {S \in states : f \in S}]

\* ------------------------------------------------------------ minimizer
\* Partition refinement.  eq maps each state to its block.
RECURSIVE Refine(_, _)
Refine(d, eq) ==
    LET finer == [S \in d.states |->
                    {T \in eq[S] : \A a \in d.input_symbols :
                        eq[d.transitions[S][a]] = eq[d.transitions[T][a]]}]
    IN IF finer = eq THEN eq ELSE Refine(d, finer)

\* The blocks of the coarsest partition that separates accepting from
\* non-accepting states and is stable under every symbol.
Blocks(d) ==
    Refine(d, [S \in d.states |->
                  {T \in d.states : (T \in d.final_states) = (S \in d.final_states)}])

\* Some enumeration of a finite set.
RECURSIVE Enumerate(_)
Enumerate(S) ==
    IF S = {} THEN <<>>
    ELSE LET x == CHOOSE y \in S : TRUE IN <<x>> \o Enumerate(S \ {x})

InsertAt(seq, pos, x) ==
    [k \in 1..(Len(seq) + 1) |->
        IF k <= pos THEN seq[k] ELSE IF k = pos + 1 THEN x ELSE seq[k - 1]]

\* The block of the trap state, if the DFA has one.
TrapBlocks(d, eq) == {eq[S] : S \in d.states \cap {{}}}

\* pDFA(...).minimize(): every block becomes one representative state.
\* rep is the member that stands for the block of the trap, pos the place
\* of that block in the list of states.
Minimized(d, eq, rep, pos) ==
    LET blocks == {eq[S] : S \in d.states}
        repOf == [B \in blocks |->
                    IF B \in TrapBlocks(d, eq) THEN rep ELSE CHOOSE x \in B : TRUE]
        others == Enumerate({repOf[B] : B \in blocks \ TrapBlocks(d, eq)})
        states == IF TrapBlocks(d, eq) = {} THEN others
                  ELSE InsertAt(others, pos, rep)
        names == {states[k] : k \in 1..Len(states)}
    IN [states |-> states,
        alphabet |-> d.input_symbols,
        delta |-> [q \in names |-> [a \in d.input_symbols |->
                      repOf[eq[d.transitions[q][a]]]]],
        start |-> repOf[eq[d.initial_state]],
        accepts |-> {repOf[eq[S]] : S \in d.final_states}]

\* ---------------------------------------------------------- the record
\* state_map = {k: v for v, k in enumerate(pdfa.states)}
StateMap(p) ==
    [q \in {p.states[k] : k \in 1..Len(p.states)} |->
        (CHOOSE k \in 1..Len(p.states) : p.states[k] = q) - 1]

\* The ids of all states, the trap's among them.
OutStatesWithTrap(p) == {StateMap(p)[p.states[k]] : k \in 1..Len(p.states)}

\* out["states"]
OutStates(p) ==
    {StateMap(p)[p.states[k]] : k \in {j \in 1..Len(p.states) : p.states[j] # {}}}

\* The start state taken to be the first state of the list.
OutStartFirst(p) == 0

\* out["start"]
OutStart(p) == StateMap(p)[p.start]

\* out["accepts"]
OutAccepts(p) == {StateMap(p)[x] : x \in {y \in p.accepts : y # {}}}

\* The transitions of the states kept, those into the trap among them.
OutTransitionsWithTrap(p) ==
    LET live == {p.states[k] : k \in 1..Len(p.states)} \ {{}}
        m == StateMap(p)
    IN [i \in {m[q] : q \in live} |->
          LET q == CHOOSE x \in live : m[x] = i
          IN [a \in p.alphabet |-> m[p.delta[q][a]]]]

\* out["transitions"]
OutTransitions(p) ==
    LET live == {p.states[k] : k \in 1..Len(p.states)} \ {{}}
        m == StateMap(p)
    IN [i \in {m[q] : q \in live} |->
          LET q == CHOOSE x \in live : m[x] = i
          IN [a \in {c \in p.alphabet : p.delta[q][c] # {}} |-> m[p.delta[q][a]]]]

Record(p, el) ==
    [states |-> OutStates(p),
     start |-> OutStart(p),
     accepts |-> OutAccepts(p),
     transitions |-> OutTransitions(p),
     elements |-> el]

RECURSIVE RecordRun(_, _, _)
\* The state the record reaches from state i on w; None when an entry is
\* missing.
RecordRun(o, i, w) ==
    IF w = <<>> THEN i
    ELSE IF i \in DOMAIN o.transitions /\ Head(w) \in DOMAIN o.transitions[i]
         THEN RecordRun(o, o.transitions[i][Head(w)], Tail(w))
         ELSE None

RecordAccepts(o, w) == RecordRun(o, o.start, w) \in o.accepts

\* ------------------------------------------------------ the state machine
VARIABLES
    given,          \* the content model as the caller built it
    tree,           \* the content model t, whose _group lists the call reassigns
    pc,             \* where dfa_from_group is
    builder,        \* _nfa_states, _nfa_state_transitions, _elements
    init,           \* the initial state of the NFA
    finals,         \* the vacant states of the root fragment
    final,          \* the accepting state of the NFA
    input_symbols,
    dfa,
    pdfa,
    out,            \* the returned record
    error           \* the exception that ended the call

vars == <<given, tree, pc, builder, init, finals, final, input_symbols,
          dfa, pdfa, out, error>>

NoDfa == [states |-> {}, input_symbols |-> {}, transitions |-> EmptyFcn,
          initial_state |-> {}, final_states |-> {}]
NoPdfa == [states |-> <<>>, alphabet |-> {}, delta |-> EmptyFcn,
           start |-> {}, accepts |-> {}]
NoRecord == [states |-> {}, start |-> None, accepts |-> {},
             transitions |-> EmptyFcn, elements |-> EmptyFcn]

\* The content models the call is given: an element; a group of up to
\* MaxGroup elements that occur once; a group of one or two elements of any
\* occurs; a group that holds a group.
Leaves == {Element(a, occ) : a \in Symbols, occ \in AllOccurs}
PlainLeaves == {Element(a, <<1, 1>>) : a \in Symbols}
PlainGroups ==
    {Group(m, g, occ) : m \in Models, occ \in AllOccurs,
                        g \in UNION {[1..k -> PlainLeaves] : k \in 1..MaxGroup}}
FlatGroups ==
    {Group(m, g, occ) : m \in Models, occ \in AllOccurs,
                        g \in [1..1 -> Leaves] \cup [1..2 -> Leaves]}
InnerLeaves ==
    {Element("A", <<1, 1>>), Element("B", <<1, 1>>),
     Element("A", <<0, Unbounded>>), Element("B", <<2, 3>>)}
InnerGroups ==
    {Group(m, g, occ) : m \in Models, occ \in AllOccurs,
                        g \in [1..1 -> InnerLeaves] \cup [1..2 -> InnerLeaves]}
NestedGroups ==
    {Group(m, g, occ) : m \in Models, occ \in SupportedOccurs,
        g \in UNION {{<<i>>, <<i, Element("B", <<1, 1>>)>>,
                      <<Element("B", <<1, 1>>), i>>,
                      <<i, Element("B", <<2, 3>>)>>} : i \in InnerGroups}}

ContentModels == Leaves \cup PlainGroups \cup FlatGroups \cup NestedGroups

Init ==
    /\ given \in ContentModels
    /\ tree = given
    /\ pc = "call"
    /\ builder = NewBuilder
    /\ init = None
    /\ finals = {}
    /\ final = None
    /\ input_symbols = {}
    /\ dfa = NoDfa
    /\ pdfa = NoPdfa
    /\ out = NoRecord
    /\ error = ""

\* init, finals = _nfa_from_node(t)
Build ==
    /\ pc = "call"
    /\ LET r == NfaFromNode(tree, NewBuilder)
       IN /\ tree' = r.t
          /\ builder' = r.b
          /\ init' = r.init
          /\ finals' = r.vacant
          /\ error' = r.err
          /\ pc' = IF r.err = "" THEN "built" ELSE "raised"
    /\ UNCHANGED <<given, final, input_symbols, dfa, pdfa, out>>

\* final = _new_state(); _nfa_state_transitions[final] = {};
\* for f in finals: _patch(f, final)
Finalize ==
    /\ pc = "built"
    /\ final' = builder.n
    /\ builder' = [builder EXCEPT
                      !.n = builder.n + 1,
                      !.tr = PatchEach(builder.tr @@ (builder.n :> EmptyFcn),
                                       finals, builder.n)]
    /\ pc' = "finalized"
    /\ UNCHANGED <<given, tree, init, finals, input_symbols, dfa, pdfa, out, error>>

\* The keys of the transitions of every state, then input_symbols.remove(""),
\* a KeyError when no transition is an epsilon transition.
InputSymbols ==
    /\ pc = "finalized"
    /\ LET keys == UNION {DOMAIN builder.tr[s] : s \in DOMAIN builder.tr}
       IN IF Eps \in keys
          THEN /\ input_symbols' = keys \ {Eps}
               /\ pc' = "symbols"
               /\ error' = error
          ELSE /\ input_symbols' = keys
               /\ pc' = "raised"
               /\ error' = "KeyError"
    /\ UNCHANGED <<given, tree, builder, init, finals, final, dfa, pdfa, out>>

\* nfa = NFA(...); dfa = DFA.from_nfa(nfa)
Determinize ==
    /\ pc = "symbols"
    /\ dfa' = FromNfa(builder.tr, input_symbols, init, final)
    /\ pc' = "dfa"
    /\ UNCHANGED <<given, tree, builder, init, finals, final, input_symbols,
                   pdfa, out, error>>

\* pdfa = pDFA(...); pdfa.minimize().  The library decides the order of
\* pdfa.states and the member that names each block.  Up to a renaming of the
\* ids of the record only two of these choices matter: the place of the
\* trap's block in the list and whether the member naming it is "{}".  Both
\* are free here; the other blocks are listed in one fixed order.
Minimize ==
    /\ pc = "dfa"
    /\ LET eq == Blocks(dfa)
           blocks == {eq[S] : S \in dfa.states}
       IN \E rep \in UNION TrapBlocks(dfa, eq) \cup {dfa.initial_state},
             pos \in 0..(Cardinality(blocks) - 1) :
            /\ TrapBlocks(dfa, eq) = {} => rep = dfa.initial_state /\ pos = 0
            /\ TrapBlocks(dfa, eq) # {} => rep \in UNION TrapBlocks(dfa, eq)
            /\ pdfa' = Minimized(dfa, eq, rep, pos)
    /\ pc' = "minimized"
    /\ UNCHANGED <<given, tree, builder, init, finals, final, input_symbols,
                   dfa, out, error>>

\* state_map and out, then return out
Canonicalize ==
    /\ pc = "minimized"
    /\ out' = Record(pdfa, builder.el)
    /\ pc' = "returned"
    /\ UNCHANGED <<given, tree, builder, init, finals, final, input_symbols,
                   dfa, pdfa, error>>

Next ==
    \/ Build
    \/ Finalize
    \/ InputSymbols
    \/ Determinize
    \/ Minimize
    \/ Canonicalize

Spec == Init /\ [][Next]_vars

\* ----------------------------------------------------------- languages
\* The symbol sequences of at most MaxWordLen symbols.
Words == UNION {[1..k -> Symbols] : k \in 0..MaxWordLen}

Concat(L1, L2) ==
    {u \o v : <<u, v>> \in {x \in L1 \X L2 : Len(x[1]) + Len(x[2]) <= MaxWordLen}}

\* L*, cut at MaxWordLen symbols.
RECURSIVE Star(_, _)
Star(L, acc) ==
    LET more == acc \cup Concat(acc, L)
    IN IF more = acc THEN acc ELSE Star(L, more)

\* The language of a content model, cut at MaxWordLen symbols.
RECURSIVE Lang(_)
RECURSIVE ConcatFrom(_, _, _)
\* The concatenation of the languages of the children g[order[i]], ... in the
\* order given.
ConcatFrom(g, order, i) ==
    IF i > Len(order) THEN {<<>>}
    ELSE Concat(Lang(g[order[i]]), ConcatFrom(g, order, i + 1))

Lang(t) ==
    LET n == Len(t.group)
        ps == PermutationsOf(1..n)
        base ==
            IF IsElement(t) THEN {<<t.name>>}
            ELSE IF t.model = "sequence" THEN ConcatFrom(t.group, [i \in 1..n |-> i], 1)
            ELSE IF t.model = "choice" THEN UNION {Lang(t.group[i]) : i \in 1..n}
            ELSE UNION {ConcatFrom(t.group, ps[k], 1) : k \in 1..Len(ps)}
    IN IF t.occurs = <<1, 1>> THEN base
       ELSE IF t.occurs = <<0, 1>> THEN base \cup {<<>>}
       ELSE IF t.occurs = <<0, Unbounded>> THEN Star(base, {<<>>})
       ELSE Concat(base, Star(base, {<<>>}))

\* ------------------------------------------------- properties of a tree
\* The nodes of a content model, the root included.
RECURSIVE Nodes(_)
Nodes(t) == {t} \cup UNION {Nodes(t.group[i]) : i \in 1..Len(t.group)}

\* A content model whose NFA needs no epsilon transition.
NeedsNoEpsilon(t) ==
    \A n \in Nodes(t) : /\ n.model \in {"element", "sequence"}
                        /\ n.occurs = <<1, 1>>

Built == pc \in {"finalized", "symbols", "dfa", "minimized", "returned"}

\* ------------------------------------------- properties of the record
\* Where state i of the record goes on a: None when there is no entry.
Step(o, i, a) ==
    IF i \in DOMAIN o.transitions /\ a \in DOMAIN o.transitions[i]
    THEN o.transitions[i][a] ELSE None

\* The states of the record reachable from the states in seen.
RECURSIVE ReachableIds(_, _)
ReachableIds(o, seen) ==
    LET more == seen \cup
                ({Step(o, i, a) : i \in seen, a \in Symbols} \ {None})
    IN IF more = seen THEN seen ELSE ReachableIds(o, more)

\* The states of the record from which a state in good is reachable.
RECURSIVE CoReachableIds(_, _)
CoReachableIds(o, good) ==
    LET more == good \cup
                {i \in DOMAIN o.transitions :
                    \E a \in Symbols : Step(o, i, a) \in good}
    IN IF more = good THEN good ELSE CoReachableIds(o, more)

\* The pairs of states (None: the rejecting sink) that some symbol sequence
\* tells apart.
RECURSIVE Apart(_, _)
Apart(o, pairs) ==
    LET ids == o.states \cup {None}
        more == pairs \cup
                {x \in ids \X ids :
                    \E a \in Symbols : <<Step(o, x[1], a), Step(o, x[2], a)>> \in pairs}
    IN IF more = pairs THEN pairs ELSE Apart(o, more)

Distinguishable(o) ==
    LET ids == o.states \cup {None}
    IN Apart(o, {x \in ids \X ids : (x[1] \in o.accepts) # (x[2] \in o.accepts)})


\* -------------------------------------------------------------- claims
SeqAB == Group("sequence", <<Element("A", <<1, 1>>), Element("B", <<1, 1>>)>>, <<1, 1>>)

\* C1: a content model that needs no epsilon transition (elements and
\* sequences, every occurs (1,1)) makes the call return a record, never raise;
\* for Sequence [A, B] the record has three states, a non-accepting start,
\* one accepting state and exactly the transitions start -A-> s1 -B-> accept.
C1_NoEpsilonModelReturnsRecord ==
    NeedsNoEpsilon(given) =>
        /\ pc # "raised"
        /\ (pc = "returned" /\ given = SeqAB) =>
              /\ Cardinality(out.states) = 3
              /\ out.start \notin out.accepts
              /\ Cardinality(out.accepts) = 1
              /\ \E s1 \in out.states, acc \in out.accepts :
                    /\ out.transitions[out.start] = [a \in {"A"} |-> s1]
                    /\ out.transitions[s1] = [a \in {"B"} |-> acc]
                    /\ DOMAIN out.transitions[acc] = {}

\* C2: the returned record accepts a symbol sequence exactly when the
\* finalized NFA accepts it.
C2_RecordAcceptsWhatNfaAccepts ==
    pc = "returned" =>
        \A w \in Words :
            NfaAccepts(builder.tr, init, final, w) <=> RecordAccepts(out, w)

C2_Witness ==
    /\ pc = "returned"
    /\ given \in NestedGroups
    /\ {} \in dfa.states
    /\ RecordAccepts(out, <<"A", "B">>)
    /\ ~RecordAccepts(out, <<"B", "A">>)

\* C3: a content model with a node, at any depth, whose occurs is none of
\* (1,1), (0,1), (0,unbounded), (1,unbounded) makes the call raise; no
\* record is returned.
C3_OtherOccursRaises ==
    (\E n \in Nodes(given) : n.occurs \notin SupportedOccurs) =>
        /\ pc \in {"call", "raised"}
        /\ out = NoRecord

C3_Witness ==
    /\ pc = "raised"
    /\ error = "NotImplementedError"
    /\ given \in NestedGroups
    /\ given.occurs = <<0, 1>>
    /\ given.group[1].occurs = <<1, 1>>
    /\ Len(given.group[1].group) = 2
    /\ given.group[1].group[2].occurs = <<2, 3>>

\* C4: the states of the returned record are exactly 0 .. n-1, n the number
\* of states of the minimized DFA other than the trap.
C4_StatesAreDense ==
    pc = "returned" =>
        out.states = 0..(Cardinality({k \in 1..Len(pdfa.states) : pdfa.states[k] # {}}) - 1)

\* C5: in the returned record start is a state, accepts are states, and
\* every key and every target of transitions is a state.
C5_RecordIsClosed ==
    pc = "returned" =>
        /\ out.start \in out.states
        /\ out.accepts \subseteq out.states
        /\ DOMAIN out.transitions \subseteq out.states
        /\ \A i \in DOMAIN out.transitions : \A a \in DOMAIN out.transitions[i] :
              out.transitions[i][a] \in out.states

C5_Witness ==
    /\ pc = "returned"
    /\ \E k \in 1..Len(pdfa.states) : \E a \in pdfa.alphabet :
          /\ pdfa.states[k] # {}
          /\ pdfa.delta[pdfa.states[k]][a] = {}
          /\ a \notin DOMAIN out.transitions[k - 1]

\* C6: every state of the returned record is reachable from start, and any
\* two distinct states are told apart by some symbol sequence.
C6_RecordIsMinimal ==
    pc = "returned" =>
        /\ ReachableIds(out, {out.start}) = out.states
        /\ LET apart == Distinguishable(out)
           IN \A i, j \in out.states : i # j => <<i, j>> \in apart

C6_Witness ==
    /\ pc = "returned"
    /\ Cardinality(dfa.states) > Len(pdfa.states)
    /\ Cardinality(out.states) >= 3

\* The NFA states from which the accepting state is reachable.
RECURSIVE NfaCoReachable(_, _)
NfaCoReachable(tr, good) ==
    LET more == good \cup
                {s \in DOMAIN tr : \E a \in DOMAIN tr[s] : tr[s][a] \cap good # {}}
    IN IF more = good THEN good ELSE NfaCoReachable(tr, more)

\* The states of the minimized DFA from which an accepting one is reachable.
RECURSIVE PdfaCoReachable(_, _)
PdfaCoReachable(p, good) ==
    LET more == good \cup
                {q \in DOMAIN p.delta : \E a \in p.alphabet : p.delta[q][a] \in good}
    IN IF more = good THEN good ELSE PdfaCoReachable(p, more)

\* C7: every state of the returned record has a path to an accepting state;
\* the state left out, "{}", is the one state of the minimized DFA with no
\* such path; every state of the finalized NFA reaches its accepting state.
C7_EmittedStatesReachAccept ==
    /\ Built => NfaCoReachable(builder.tr, {final}) = 0..(builder.n - 1)
    /\ pc \in {"minimized", "returned"} =>
          LET live == PdfaCoReachable(pdfa, pdfa.accepts)
          IN \A k \in 1..Len(pdfa.states) :
                (pdfa.states[k] = {}) <=> (pdfa.states[k] \notin live)
    /\ pc = "returned" => out.states \subseteq CoReachableIds(out, out.accepts)

C7_Witness ==
    /\ pc = "returned"
    /\ {} \in dfa.states
    /\ Cardinality(out.states) >= 3
    /\ given \in NestedGroups

\* C8: the finalized NFA accepts exactly the language of the content model
\* (element: its symbol; sequence: concatenation; choice: union; all: the
\* union over the orderings of the children; then optional, star or plus
\* by occurs).
C8_NfaAcceptsLanguageOfModel ==
    Built =>
        LET language == Lang(given)
        IN \A w \in Words :
              NfaAccepts(builder.tr, init, final, w) <=> w \in language

C10_TreeIsRestored ==
    pc \in {"returned", "raised"} => tree = given

C10_Witness ==
    /\ pc = "raised"
    /\ tree = given
    /\ given.model = "all"
    /\ Len(given.group) = 2
    /\ given.group[1].model = "all"
    /\ Len(given.group[1].group) = 2
    /\ given.group[1].group[2].occurs = <<2, 3>>

====
